---- MODULE Spec2Model ----
(***************************************************************************)
(* ChainSense-AI frontend: the zustand auth store (store/authStore) and    *)
(* the axios client `api` with its request and response interceptors       *)
(* (services/api).  The session is the store's state; every logical        *)
(* request sent through `api` is a small state machine: sent, possibly     *)
(* refreshing, possibly retried, settled to its caller.                    *)
(*                                                                         *)
(* JavaScript runs each handler to its next await without interruption,    *)
(* so one action is the code between two network suspension points.        *)
(***************************************************************************)
EXTENDS Integers, Naturals, Sequences, FiniteSets, TLC

\* Number of logical requests issued through `api`.
NumReq == 2
\* Number of token pairs the auth server issues (logins and refreshes).
MaxGen == 2

Requests == 1..NumReq

\* JavaScript null for the string-typed token fields and the header.
Null == "null"
\* JavaScript null / undefined for the object-typed values (user, error.response, ...).
None == <<>>

UserKeys == {"id", "email", "username", "fullName", "role"}

\* The user the login form builds from GET /auth/me.
LoginUser ==
    [id |-> "u1", email |-> "e1", username |-> "n1", fullName |-> "F1", role |-> "viewer"]

\* Arguments callers pass to updateUser (Partial<User>).
Partials == { [role |-> "admin"], [fullName |-> "F2", role |-> "admin"] }

\* Token pair number g as the auth server issues it: { access_token, refresh_token }.
TokenData(g) == [access_token |-> "T" \o ToString(g), refresh_token |-> "R" \o ToString(g)]

\* HTTP outcomes of a call: a response with a status, or no response at all.
OkResponse == [status |-> 200]
ErrorResponses == { [status |-> 401], [status |-> 500], None }

VARIABLES
    session,    \* useAuthStore state: user, accessToken, refreshToken, isAuthenticated
    req,        \* per logical request: axios config, handler position, caller's outcome
    nextGen,    \* the auth server: number of the next token pair it issues
    forcedOut,  \* a forced logout happened and no explicit login since
    lastCall,   \* the store operation called last, its arguments, the state it found
    form,       \* LoginPage.onSubmit: its position, its requests, what it got back
    storage,    \* what persist() wrote last under the key 'chainsense-auth'
    location    \* the router: the current path, the path entered, redirects since

vars == <<session, req, nextGen, forcedOut, lastCall, form, storage, location>>

\* What the api client and the plain callers of the store leave alone.
aside == <<lastCall, form, location>>

\* The store and its persisted copy: a step that calls no set() leaves both.
store == <<session, storage>>

-----------------------------------------------------------------------------
(* store/authStore *)

\* Initial store state.
EmptySession ==
    [user |-> None, accessToken |-> Null, refreshToken |-> Null, isAuthenticated |-> FALSE]

\* login whose set({...}) lacks refreshToken: the stored one stays.
login_KeepsRefreshToken(s, user, accessToken, refreshToken) ==
    [s EXCEPT !.user = user,
              !.accessToken = accessToken,
              !.isAuthenticated = TRUE]

\* login: (user, accessToken, refreshToken) => set({...})
login(s, user, accessToken, refreshToken) ==
    [s EXCEPT !.user = user,
              !.accessToken = accessToken,
              !.refreshToken = refreshToken,
              !.isAuthenticated = TRUE]

\* logout whose set({...}) lacks user: the stored one stays.
logout_KeepsUser(s) ==
    [s EXCEPT !.accessToken = Null,
              !.refreshToken = Null,
              !.isAuthenticated = FALSE]

\* logout: () => set({...})
logout(s) ==
    [s EXCEPT !.user = None,
              !.accessToken = Null,
              !.refreshToken = Null,
              !.isAuthenticated = FALSE]

\* The spread the other way round: { ...userData, ...state.user }.
Spread_UserWins(user, userData) ==
    [k \in UserKeys |-> IF k \in DOMAIN user THEN user[k] ELSE userData[k]]

\* { ...state.user, ...userData }
Spread(user, userData) ==
    [k \in UserKeys |-> IF k \in DOMAIN userData THEN userData[k] ELSE user[k]]

\* updateUser without the `state.user ?` test: { ...null, ...userData } is userData.
updateUser_Fabricates(s, userData) ==
    [s EXCEPT !.user = IF s.user # None THEN Spread(s.user, userData) ELSE userData]

\* updateUser: (userData) => set((state) => ({ user: ... }))
updateUser(s, userData) ==
    [s EXCEPT !.user = IF s.user # None THEN Spread(s.user, userData) ELSE None]

\* The functions the store's state holds next to its four data fields.
StoreActions == [login |-> "login", logout |-> "logout", updateUser |-> "updateUser"]

\* get(): the whole state of the store.
GetState(s) == s @@ StoreActions

\* persist() without the partialize option: the whole state is written.
Partialize_WholeState(state) == state

\* partialize: (state) => ({ user, accessToken, refreshToken, isAuthenticated })
Partialize(state) ==
    [user            |-> state.user,
     accessToken     |-> state.accessToken,
     refreshToken    |-> state.refreshToken,
     isAuthenticated |-> state.isAuthenticated]

\* set(...) under persist(): the store takes the new state, and what partialize
\* picks of it is written under 'chainsense-auth'.
Set(s) ==
    /\ session' = s
    /\ storage' = Partialize(GetState(s))

-----------------------------------------------------------------------------
(* App: the route table *)

\* The paths of the children of the "/" route.
ChildPaths ==
    {"/dashboard", "/inventory", "/shipments", "/suppliers", "/analytics", "/settings"}

\* The paths a browser may be at: those of the route table, and one it does not list.
Paths == {"/login", "/", "/nowhere"} \cup ChildPaths

\* What a route element renders to: a page, or <Navigate to=... replace />.
Page(name) == [kind |-> "page", name |-> name]
NavigateTo(path) == [kind |-> "navigate", to |-> path]

\* A ProtectedRoute that renders its children whatever the session is.
ProtectedRoute_Open(isAuthenticated, children) == children

\* ProtectedRoute: if (!isAuthenticated) return <Navigate to="/login" replace />
ProtectedRoute(isAuthenticated, children) ==
    IF ~isAuthenticated THEN NavigateTo("/login") ELSE children

\* A catch-all route that sends to a path the table does not list.
CatchAll_Unlisted == [kind |-> "navigate", to |-> "/nowhere"]

\* <Route path="*" element={<Navigate to="/dashboard" replace />} />
CatchAll == NavigateTo("/dashboard")

\* <Routes>: what the route matching `path` renders to.
Element(path, isAuthenticated) ==
    CASE path = "/login"      -> Page("/login")
      [] path = "/"           -> ProtectedRoute(isAuthenticated, NavigateTo("/dashboard"))
      [] path \in ChildPaths  -> ProtectedRoute(isAuthenticated, Page(path))
      [] OTHER                -> CatchAll

\* The browser enters `path`: by its address bar, a link, or navigate(path).
Enter(path) == [path |-> path, from |-> path, hops |-> 0]

-----------------------------------------------------------------------------
(* services/api *)

\* `Bearer ${accessToken}`
Bearer(accessToken) == "Bearer " \o accessToken

\* A request interceptor without the `if (accessToken)` test.
RequestInterceptor_NoTest(s, authorization) == Bearer(s.accessToken)

\* A request interceptor that attaches the session's other token.
RequestInterceptor_RefreshToken(s, authorization) ==
    IF s.accessToken # Null THEN Bearer(s.refreshToken) ELSE authorization

\* Request interceptor: the Authorization header the request leaves with.
RequestInterceptor(s, authorization) ==
    IF s.accessToken # Null THEN Bearer(s.accessToken) ELSE authorization

\* A status test that takes every error response for an expired token.
Is401_AnyStatus(error) == error.response # None

\* error.response?.status === 401
Is401(error) == error.response # None /\ error.response.status = 401

\* The guard without the one-shot marker.
ShouldRecover_NoMarker(error, retry) == error.response # None /\ error.response.status = 401

\* error.response?.status === 401 && !originalRequest._retry
ShouldRecover(error, retry) == Is401(error) /\ ~retry

\* What the transport hands back for one call: which call it answers (1 the
\* original send, 2 the retry, 0 the refresh call) and the response, if any.
\* A rejected call's reply is the AxiosError, a fulfilled call's the response.
Reply(call, response) == [call |-> call, response |-> response]

RefreshCall == 0

\* A request config before it is handed to api, and the bookkeeping of its handler.
NewRequest ==
    [pc            |-> "idle",
     retry         |-> FALSE,     \* originalRequest._retry
     Authorization |-> Null,      \* originalRequest.headers.Authorization
     attempt       |-> 0,         \* times the request was put on the wire
     error         |-> None,      \* `error` of the response handler, held across its await
     refreshToken  |-> Null,      \* `refreshToken` the handler read from the store
     refreshBody   |-> Null,      \* refresh_token in the body of the refresh call
     refreshAuth   |-> Null,      \* Authorization header of the refresh call
     refreshCalls  |-> 0,         \* calls to POST /auth/refresh made for this request
     refreshData   |-> None,      \* response.data of the refresh call, once fulfilled
     loggedOut     |-> FALSE,     \* the handler called logout()
     received      |-> None,      \* what the transport handed back last for the request
     result        |-> None]      \* what the caller's promise settled with

Resolved(value) == [kind |-> "resolved", value |-> value]
Rejected(value) == [kind |-> "rejected", value |-> value]

\* The session persist() restores from storage: the one login() wrote before the
\* page was loaded, with the pair the server issued then (pair 0).
RestoredSession ==
    login(EmptySession, LoginUser, TokenData(0).access_token, TokenData(0).refresh_token)

\* No store operation recorded yet.
NoCall ==
    [op |-> "none", before |-> EmptySession, user |-> None, accessToken |-> Null,
     refreshToken |-> Null, userData |-> None]

\* LoginPage before the form is submitted.
IdleForm ==
    [pc       |-> "idle",
     loginReq |-> 0,        \* the request authAPI.login sent through api
     meReq    |-> 0,        \* the request authAPI.getMe sent through api
     response |-> None,     \* `response` of onSubmit: data of POST /auth/login
     navigated |-> FALSE]   \* navigate('/dashboard') was called

Init ==
    /\ session \in {EmptySession, RestoredSession}
    /\ req = [r \in Requests |-> NewRequest]
    /\ nextGen = 1
    /\ forcedOut = FALSE
    /\ lastCall = NoCall
    /\ form = IdleForm
    /\ storage = Partialize(GetState(session))
    /\ location = Enter("/login")

-----------------------------------------------------------------------------
(* Callers of the store *)

\* LoginPage: login(user, access_token, refresh_token) with a pair the server issued.
Login ==
    /\ nextGen <= MaxGen
    /\ LET data == TokenData(nextGen) IN
         Set(login(session, LoginUser, data.access_token, data.refresh_token))
    /\ nextGen' = nextGen + 1
    /\ forcedOut' = FALSE
    /\ UNCHANGED <<req, aside>>

\* An explicit logout().
Logout ==
    /\ Set(logout(session))
    /\ UNCHANGED <<req, nextGen, forcedOut, aside>>

\* updateUser(userData)
UpdateUser(userData) ==
    /\ Set(updateUser(session, userData))
    /\ UNCHANGED <<req, nextGen, forcedOut, aside>>

-----------------------------------------------------------------------------
(* One logical request through api *)

\* api(config): the request interceptor runs on the caller's config, the request is sent.
Issue(r) ==
    /\ req[r].pc = "idle"
    /\ \A q \in Requests : q < r => req[q].pc # "idle"    \* numbered in order of issue
    /\ req' = [req EXCEPT ![r].pc = "sent",
                          ![r].Authorization = RequestInterceptor(session, @),
                          ![r].attempt = 1]

\* api.get(...) / api.post(...) called by a page.
Send(r) ==
    /\ Issue(r)
    /\ UNCHANGED <<store, nextGen, forcedOut, aside>>

\* A fulfilled handler that unwraps the response: (response) => response.data.
OnFulfilledResult_Unwrapped(response) == [kind |-> "resolved", value |-> response.response]

\* What the caller gets when the response handler is given a fulfilled response.
OnFulfilledResult(response) == Resolved(response)

\* Response interceptor, fulfilled: (response) => response.
OnFulfilled(r) ==
    /\ req[r].pc \in {"sent", "retried"}
    /\ LET response == Reply(req[r].attempt, OkResponse) IN
         req' = [req EXCEPT ![r].pc = "done",
                            ![r].received = response,
                            ![r].result = OnFulfilledResult(response)]
    /\ UNCHANGED <<store, nextGen, forcedOut, aside>>

\* A handler that refreshes whether or not it holds a refresh token.
HasRefreshToken_Always(s) == TRUE

\* The test the wrong way round: if (!refreshToken).
HasRefreshToken_Inverted(s) == s.refreshToken = Null

\* if (refreshToken)
HasRefreshToken(s) == s.refreshToken # Null

\* The refresh call axios.post(url, { refresh_token }) as it is sent through the api
\* instance: the request interceptor attaches the session's bearer token.
RefreshRequest_ViaApi(s) ==
    [refresh_token |-> s.refreshToken, Authorization |-> RequestInterceptor(s, Null)]

\* axios.post(`${API_BASE_URL}/auth/refresh`, { refresh_token: refreshToken }) on the
\* bare axios: the body, and the Authorization header it goes out with.
RefreshRequest(s) == [refresh_token |-> s.refreshToken, Authorization |-> Null]

\* Response interceptor, rejected: async (error) => { ... } up to its await or return.
OnRejected(r, response) ==
    /\ UNCHANGED aside
    /\ req[r].pc \in {"sent", "retried"}
    /\ LET error == Reply(req[r].attempt, response) IN
         IF ShouldRecover(error, req[r].retry)
         THEN IF HasRefreshToken(session)
              THEN /\ req' = [req EXCEPT ![r].pc = "refreshing",
                                         ![r].retry = TRUE,
                                         ![r].received = error,
                                         ![r].error = error,
                                         ![r].refreshToken = session.refreshToken,
                                         ![r].refreshBody =
                                             RefreshRequest(session).refresh_token,
                                         ![r].refreshAuth =
                                             RefreshRequest(session).Authorization,
                                         ![r].refreshCalls = @ + 1]
                   /\ UNCHANGED <<store, nextGen, forcedOut>>
              ELSE /\ Set(logout(session))
                   /\ forcedOut' = TRUE
                   /\ req' = [req EXCEPT ![r].pc = "done",
                                         ![r].retry = TRUE,
                                         ![r].received = error,
                                         ![r].error = error,
                                         ![r].refreshToken = session.refreshToken,
                                         ![r].loggedOut = TRUE,
                                         ![r].result = Rejected(error)]
                   /\ UNCHANGED nextGen
         ELSE /\ req' = [req EXCEPT ![r].pc = "done",
                                    ![r].received = error,
                                    ![r].result = Rejected(error)]
              /\ UNCHANGED <<store, nextGen, forcedOut>>

\* The header line 227 puts on originalRequest before api(originalRequest).
RetryAuthorization(data) == Bearer(data.access_token)

\* The refresh path passing the two new tokens in the wrong order.
RefreshLogin_Swapped(s, data) == login(s, s.user, data.refresh_token, data.access_token)

\* The refresh path passing the user the page was loaded with, not the store's.
RefreshLogin_LoadedUser(s, data) ==
    login(s, LoginUser, data.access_token, data.refresh_token)

\* The refresh path without its call of login.
RefreshLogin_Skipped(s, data) == s

\* useAuthStore.getState().login(useAuthStore.getState().user!, access_token, refresh_token)
RefreshLogin(s, data) == login(s, s.user, data.access_token, data.refresh_token)

\* The refresh call came back fulfilled: login with the new pair, re-issue the request.
RefreshFulfilled(r) ==
    /\ req[r].pc = "refreshing"
    /\ nextGen <= MaxGen
    /\ LET data == TokenData(nextGen)
           s1   == RefreshLogin(session, data)
       IN /\ Set(s1)
          /\ req' = [req EXCEPT ![r].pc = "retried",
                                ![r].refreshData = data,
                                ![r].Authorization =
                                    RequestInterceptor(s1, RetryAuthorization(data)),
                                ![r].attempt = @ + 1]
    /\ nextGen' = nextGen + 1
    /\ UNCHANGED <<forcedOut, aside>>

\* catch (e) { logout(); return Promise.reject(e) }
AfterCatch_RefreshError(error, refreshError) == [kind |-> "rejected", value |-> refreshError]

\* The error the handler rejects with after its catch block: `error`, not the caught one.
AfterCatch(error, refreshError) == Rejected(error)

\* The refresh call was rejected: catch { logout() }, then Promise.reject(error).
RefreshRejected(r, response) ==
    /\ req[r].pc = "refreshing"
    /\ LET refreshError == Reply(RefreshCall, response) IN
         req' = [req EXCEPT ![r].pc = "done",
                            ![r].loggedOut = TRUE,
                            ![r].result = AfterCatch(req[r].error, refreshError)]
    /\ Set(logout(session))
    /\ forcedOut' = TRUE
    /\ UNCHANGED <<nextGen, aside>>

Next ==
    \/ Login
    \/ Logout
    \/ \E userData \in Partials : UpdateUser(userData)
    \/ \E r \in Requests : Send(r)
    \/ \E r \in Requests : OnFulfilled(r)
    \/ \E r \in Requests, response \in ErrorResponses : OnRejected(r, response)
    \/ \E r \in Requests : RefreshFulfilled(r)
    \/ \E r \in Requests, response \in ErrorResponses : RefreshRejected(r, response)

Spec == Init /\ [][Next]_vars

TypeOK ==
    /\ session.isAuthenticated \in BOOLEAN
    /\ nextGen \in 1..(MaxGen + 1)
    /\ \A r \in Requests :
         req[r].pc \in {"idle", "sent", "refreshing", "retried", "done"}

-----------------------------------------------------------------------------
(* Properties of the api client and the session *)

Settled(r) == req[r].pc = "done"
\* The step in which request r's handler moves from position `from` to position `to`.
Moves(r, from, to) == req[r].pc = from /\ req'[r].pc = to
Unauthorized == [status |-> 401]

\* C1: every logical request is put on the wire at most twice and makes at most one
\* refresh call; a refresh is only ever in flight after the first attempt, so a 401
\* on the request already marked as retried starts no refresh.
C1_AtMostOneRetry ==
    \A r \in Requests :
        /\ req[r].attempt <= 2
        /\ req[r].refreshCalls <= 1
        /\ req[r].pc = "refreshing" => (req[r].attempt = 1 /\ req[r].refreshCalls = 1)
        /\ req[r].attempt = 2 => (req[r].retry /\ req[r].refreshCalls = 1)

\* A request that got 401 on the original and on the retry, with one refresh in between.
C1_Witness ==
    \E r \in Requests :
        /\ Settled(r)
        /\ req[r].attempt = 2
        /\ req[r].refreshCalls = 1
        /\ req[r].result = Rejected(Reply(2, Unauthorized))

\* C2: when the first attempt got 401, a refresh token was held and the refresh call
\* was fulfilled, exactly one refresh call was made, the request was re-issued exactly
\* once, and the re-issued request carries the access token that refresh returned.
C2_RefreshThenRetryOnce ==
    \A r \in Requests :
        req[r].refreshData # None =>
            /\ req[r].pc \in {"retried", "done"}
            /\ Is401(req[r].error) /\ req[r].error.call = 1
            /\ req[r].refreshBody # Null
            /\ req[r].refreshCalls = 1
            /\ req[r].attempt = 2
            /\ req[r].Authorization = "Bearer " \o req[r].refreshData.access_token

\* A request that went 401, refresh, retry, and whose retry was answered 200.
C2_Witness ==
    \E r \in Requests :
        /\ Settled(r)
        /\ req[r].refreshData # None
        /\ req[r].result = Resolved(Reply(2, OkResponse))

\* C3: the step that completes a successful refresh leaves the session with exactly
\* the token pair the refresh returned, the user the session held immediately before
\* that step, and isAuthenticated true.
C3_RefreshReplacesTokens ==
    [][\A r \in Requests :
          Moves(r, "refreshing", "retried") =>
              /\ session'.accessToken = req'[r].refreshData.access_token
              /\ session'.refreshToken = req'[r].refreshData.refresh_token
              /\ session'.user = session.user
              /\ session'.isAuthenticated
      ]_vars

\* A retry is in flight and the session holds the pair its refresh returned, with the
\* user of the restored session.
C3_Witness ==
    \E r \in Requests :
        /\ req[r].pc = "retried"
        /\ session.user = LoginUser
        /\ session.accessToken = req[r].refreshData.access_token
        /\ session.refreshToken = req[r].refreshData.refresh_token
        /\ session.refreshToken # req[r].refreshBody

\* C4: after a refresh and a retry the caller gets exactly what the retry came back
\* with, resolved when it was answered 200 and rejected otherwise; a 401 on the retry
\* is rejected to the caller with still only one refresh call made.
C4_RetryOutcomeDelivered ==
    \A r \in Requests :
        (Settled(r) /\ req[r].attempt = 2) =>
            /\ req[r].received.call = 2
            /\ req[r].result.value = req[r].received
            /\ req[r].result.kind = "resolved" <=> req[r].received.response = OkResponse
            /\ req[r].refreshCalls = 1

\* The retry of a refreshed request was answered 401 and that error reached the caller.
C4_Witness ==
    \E r \in Requests :
        /\ Settled(r)
        /\ req[r].refreshData # None
        /\ req[r].received = Reply(2, Unauthorized)
        /\ req[r].result = Rejected(Reply(2, Unauthorized))

\* C5: when the refresh call made for a 401 fails, the step that handles the failure
\* empties the session (logout), sends no retry, and rejects the caller with the
\* original request's 401 error, which is not the refresh call's error.
C5_RefreshFailureLogsOut ==
    [][\A r \in Requests :
          Moves(r, "refreshing", "done") =>
              /\ session' = EmptySession
              /\ req'[r].loggedOut
              /\ req'[r].attempt = 1
              /\ req'[r].result.kind = "rejected"
              /\ req'[r].result.value = req[r].error
              /\ req'[r].result.value.call = 1
              /\ Is401(req'[r].result.value)
      ]_vars

\* A request whose refresh call failed: settled after one attempt and one refresh call.
C5_Witness ==
    \E r \in Requests :
        /\ Settled(r)
        /\ req[r].refreshCalls = 1
        /\ req[r].refreshData = None
        /\ req[r].loggedOut
        /\ req[r].result = Rejected(Reply(1, Unauthorized))

\* C6: when a 401 arrives and the session holds no refresh token, the handling step
\* makes no refresh call, sends no retry, and has emptied the session (logout) when
\* the 401 error is rejected to the caller.
C6_NoRefreshTokenLogsOut ==
    [][\A r \in Requests :
          (/\ req[r].pc = "sent"
           /\ req'[r].pc # "sent"
           /\ session.refreshToken = Null
           /\ req'[r].received = Reply(1, Unauthorized)) =>
              /\ req'[r].pc = "done"
              /\ req'[r].refreshCalls = 0
              /\ req'[r].attempt = 1
              /\ req'[r].loggedOut
              /\ session' = EmptySession
              /\ req'[r].result = Rejected(Reply(1, Unauthorized))
      ]_vars

\* A request rejected with its 401 after a logout and without any refresh call.
C6_Witness ==
    \E r \in Requests :
        /\ Settled(r)
        /\ req[r].loggedOut
        /\ req[r].refreshCalls = 0
        /\ req[r].result = Rejected(Reply(1, Unauthorized))
        /\ session = EmptySession

\* C7: isAuthenticated is true if and only if user, accessToken and refreshToken are
\* all non-null.
C7_AuthenticatedIffComplete ==
    session.isAuthenticated <=>
        (session.user # None /\ session.accessToken # Null /\ session.refreshToken # Null)

\* C8: after a forced logout and until an explicit login, the session carries no
\* access token and every request put on the wire carries no bearer token.
C8_NoTokenAfterForcedLogout ==
    [][(forcedOut /\ forcedOut') =>
          /\ session'.accessToken = Null
          /\ \A r \in Requests :
                 req'[r].attempt > req[r].attempt => req'[r].Authorization = Null
      ]_vars

\* C9: a request answered 200 on its first attempt made no refresh call, was not
\* retried, left the session as it was, and its response is what the caller gets.
C9_FirstSuccessUntouched ==
    [][\A r \in Requests :
          (Moves(r, "sent", "done") /\ req'[r].received.response = OkResponse) =>
              /\ session' = session
              /\ req'[r].refreshCalls = 0
              /\ req'[r].attempt = 1
              /\ ~req'[r].retry
              /\ req'[r].result = Resolved(req'[r].received)
              /\ req'[r].received = Reply(1, OkResponse)
      ]_vars

\* A request settled with the 200 response of its first attempt.
C9_Witness ==
    \E r \in Requests :
        /\ Settled(r)
        /\ req[r].attempt = 1
        /\ req[r].refreshCalls = 0
        /\ req[r].result = Resolved(Reply(1, OkResponse))

\* C10: when an attempt fails with no response or with a status other than 401, the
\* handling step rejects the caller with that same error, makes no refresh call,
\* sends no retry, and changes no session field.
C10_OtherErrorsPropagate ==
    [][\A r \in Requests :
          (/\ req[r].pc \in {"sent", "retried"}
           /\ req'[r].pc # req[r].pc
           /\ req'[r].received.response # OkResponse
           /\ req'[r].received.response # Unauthorized) =>
              /\ req'[r].pc = "done"
              /\ req'[r].received.call = req[r].attempt
              /\ req'[r].result = Rejected(req'[r].received)
              /\ req'[r].refreshCalls = req[r].refreshCalls
              /\ req'[r].attempt = req[r].attempt
              /\ session' = session
      ]_vars

\* One request failed without a response and another with a 500, both on the first
\* attempt, and both errors reached their callers.
C10_Witness ==
    \E r, q \in Requests :
        /\ Settled(r) /\ Settled(q)
        /\ req[r].result = Rejected(Reply(1, None))
        /\ req[q].result = Rejected(Reply(1, [status |-> 500]))
        /\ req[r].refreshCalls = 0 /\ req[q].refreshCalls = 0

-----------------------------------------------------------------------------
(* Requests whose caller passes its own Authorization header *)

\* config.headers.Authorization as a caller of api may pass it: absent, or its own.
CallerHeaders == {Null, "Basic c"}

HeaderInit ==
    /\ session \in {EmptySession, RestoredSession}
    /\ req \in [Requests -> {[NewRequest EXCEPT !.Authorization = h] : h \in CallerHeaders}]
    /\ nextGen = 1
    /\ forcedOut = FALSE
    /\ lastCall = NoCall
    /\ form = IdleForm
    /\ storage = Partialize(GetState(session))
    /\ location = Enter("/login")

HeaderNext ==
    \/ Login
    \/ Logout
    \/ \E r \in Requests : Send(r)
    \/ \E r \in Requests : OnFulfilled(r)
    \/ \E r \in Requests, response \in ErrorResponses : OnRejected(r, response)
    \/ \E r \in Requests : RefreshFulfilled(r)
    \/ \E r \in Requests, response \in ErrorResponses : RefreshRejected(r, response)

HeaderSpec == HeaderInit /\ [][HeaderNext]_vars

\* C11: every time a request is put on the wire, original send or retry, it carries
\* the bearer credential of the session's accessToken as it is at that moment when
\* that token is non-null, and otherwise the Authorization header its config had.
C11_BearerIsCurrentToken ==
    [][\A r \in Requests :
          req'[r].attempt > req[r].attempt =>
              req'[r].Authorization =
                  IF session'.accessToken # Null
                  THEN "Bearer " \o session'.accessToken
                  ELSE req[r].Authorization
      ]_vars

\* One request went out with the caller's own header while the session was empty, and
\* another was retried with the session's token as bearer after a login and a refresh.
C11_Witness ==
    \E r, q \in Requests :
        /\ req[r].attempt = 1 /\ req[r].Authorization = "Basic c"
        /\ req[q].attempt = 2 /\ session.accessToken # Null
        /\ req[q].Authorization = "Bearer " \o session.accessToken

-----------------------------------------------------------------------------
(* The store's operations on their own, from any state and with any arguments *)

\* The user handleDemoLogin passes to login.
DemoUser ==
    [id |-> "demo-user-id", email |-> "demo@chainsense.ai", username |-> "demo",
     fullName |-> "Demo User", role |-> "admin"]

StoreUsers == {LoginUser, DemoUser}

\* Tokens callers pass to login: those of handleDemoLogin and those the server issues.
AccessTokens  == {"demo-access-token"}  \cup {TokenData(g).access_token  : g \in 0..MaxGen}
RefreshTokens == {"demo-refresh-token"} \cup {TokenData(g).refresh_token : g \in 0..MaxGen}

\* login(user, accessToken, refreshToken); the api client passes the session's own
\* user (null after a logout), the pages pass the user they built.
CallLogin(user, accessToken, refreshToken) ==
    /\ Set(login(session, user, accessToken, refreshToken))
    /\ lastCall' = [op |-> "login", before |-> session, user |-> user,
                    accessToken |-> accessToken, refreshToken |-> refreshToken,
                    userData |-> None]
    /\ UNCHANGED <<req, nextGen, forcedOut, form, location>>

\* logout()
CallLogout ==
    /\ Set(logout(session))
    /\ lastCall' = [NoCall EXCEPT !.op = "logout", !.before = session]
    /\ UNCHANGED <<req, nextGen, forcedOut, form, location>>

\* updateUser(userData)
CallUpdateUser(userData) ==
    /\ Set(updateUser(session, userData))
    /\ lastCall' = [NoCall EXCEPT !.op = "updateUser", !.before = session,
                                  !.userData = userData]
    /\ UNCHANGED <<req, nextGen, forcedOut, form, location>>

StoreNext ==
    \/ \E user \in StoreUsers \cup {session.user},
          accessToken \in AccessTokens, refreshToken \in RefreshTokens :
            CallLogin(user, accessToken, refreshToken)
    \/ CallLogout
    \/ \E userData \in Partials : CallUpdateUser(userData)

StoreSpec == Init /\ [][StoreNext]_vars

\* C12: right after login(u, a, r), whatever the session was, the state read is exactly
\* {user: u, accessToken: a, refreshToken: r, isAuthenticated: true}.
C12_LoginReplacesAll ==
    lastCall.op = "login" =>
        session = [user |-> lastCall.user, accessToken |-> lastCall.accessToken,
                   refreshToken |-> lastCall.refreshToken, isAuthenticated |-> TRUE]

\* login was called on an authenticated session with another user and other tokens,
\* and the session holds none of the old values.
C12_Witness ==
    /\ lastCall.op = "login"
    /\ lastCall.before.isAuthenticated
    /\ lastCall.before.user = [LoginUser EXCEPT !.role = "admin"]
    /\ session.user = DemoUser
    /\ session.accessToken # lastCall.before.accessToken
    /\ session.refreshToken # lastCall.before.refreshToken

\* C13: right after logout(), whatever the session was, the state is {user: null,
\* accessToken: null, refreshToken: null, isAuthenticated: false}, and a further
\* logout() leaves it so.
C13_LogoutClearsAll ==
    lastCall.op = "logout" =>
        /\ session = [user |-> None, accessToken |-> Null, refreshToken |-> Null,
                      isAuthenticated |-> FALSE]
        /\ logout(session) = session

\* logout was called on an authenticated session.
C13_Witness ==
    /\ lastCall.op = "logout"
    /\ lastCall.before.isAuthenticated
    /\ lastCall.before.user # None
    /\ session = EmptySession

\* C14: right after updateUser(partial) called with the session's user null, all four
\* session fields are as they were; no user appears.
C14_UpdateUserNullIsNoOp ==
    (lastCall.op = "updateUser" /\ lastCall.before.user = None) =>
        /\ session = lastCall.before
        /\ session.user = None

\* updateUser was called on the empty session.
C14_Witness ==
    /\ lastCall.op = "updateUser"
    /\ lastCall.before = EmptySession
    /\ session = EmptySession

\* C15: right after updateUser(partial) called with a non-null user, every key of
\* partial has the given value, every other user key its prior value, and
\* accessToken, refreshToken and isAuthenticated are as they were.
C15_UpdateUserMerges ==
    (lastCall.op = "updateUser" /\ lastCall.before.user # None) =>
        /\ DOMAIN session.user = UserKeys
        /\ \A k \in DOMAIN lastCall.userData : session.user[k] = lastCall.userData[k]
        /\ \A k \in UserKeys \ DOMAIN lastCall.userData :
               session.user[k] = lastCall.before.user[k]
        /\ session.accessToken = lastCall.before.accessToken
        /\ session.refreshToken = lastCall.before.refreshToken
        /\ session.isAuthenticated = lastCall.before.isAuthenticated

\* updateUser({role: 'admin'}) on the restored user changed the role and nothing else.
C15_Witness ==
    /\ lastCall.op = "updateUser"
    /\ lastCall.userData = [role |-> "admin"]
    /\ lastCall.before.user = LoginUser
    /\ session.user = [LoginUser EXCEPT !.role = "admin"]
    /\ session.accessToken # Null

-----------------------------------------------------------------------------
(* The refresh call, concurrent refreshes, and the order of one request's steps *)

\* C16: every refresh call carries a refresh token in its body and no Authorization
\* header, and a request makes one refresh call only: after the refresh call failed
\* the request is settled with no further refresh call and no retry.
C16_RefreshCallIsBare ==
    \A r \in Requests :
        req[r].refreshCalls >= 1 =>
            /\ req[r].refreshBody \in RefreshTokens
            /\ req[r].refreshBody = req[r].refreshToken
            /\ req[r].refreshAuth = Null
            /\ req[r].refreshCalls = 1
            /\ (req[r].pc = "done" /\ req[r].refreshData = None) =>
                   (req[r].attempt = 1 /\ req[r].result.value.call = 1)

\* A refresh call that carried R0 and no bearer token failed, and the request settled.
C16_Witness ==
    \E r \in Requests :
        /\ Settled(r)
        /\ req[r].refreshCalls = 1
        /\ req[r].refreshBody = "R0"
        /\ req[r].refreshAuth = Null
        /\ req[r].refreshData = None
        /\ session.accessToken = Null

\* C17: each request whose first 401 found a refresh token in the session made its
\* own refresh call, whatever the other requests were doing, so the refresh calls are
\* as many as those requests.
C17_RefreshesNotCoalesced ==
    /\ \A r \in Requests :
           req[r].retry =>
               /\ req[r].refreshCalls = IF req[r].refreshToken # Null THEN 1 ELSE 0
               /\ req[r].refreshCalls = 1 => req[r].refreshBody = req[r].refreshToken
    /\ Cardinality({r \in Requests : req[r].refreshCalls = 1})
           = Cardinality({r \in Requests : req[r].retry /\ req[r].refreshToken # Null})

\* Two refresh calls in flight at once, both submitting the same refresh token.
C17_Witness ==
    \E r, q \in Requests :
        /\ r # q
        /\ req[r].pc = "refreshing" /\ req[q].pc = "refreshing"
        /\ req[r].refreshBody = "R0" /\ req[q].refreshBody = "R0"

\* C18: when a request's refresh succeeds after another request's refresh already
\* succeeded, the session's tokens become the pair of this later refresh, and the
\* other request stays retried with the access token of its own earlier refresh.
C18_LastRefreshWins ==
    [][\A r, q \in Requests :
          (/\ r # q
           /\ Moves(r, "refreshing", "retried")
           /\ req[q].refreshData # None) =>
              /\ session'.accessToken = req'[r].refreshData.access_token
              /\ session'.refreshToken = req'[r].refreshData.refresh_token
              /\ req'[q].refreshData = req[q].refreshData
              /\ req'[q].attempt = 2
              /\ req'[q].Authorization = "Bearer " \o req[q].refreshData.access_token
      ]_vars

\* Two requests submitted R0 concurrently, both refreshes succeeded; the session holds
\* the later pair and the other request was retried with the earlier one.
C18_Witness ==
    \E r, q \in Requests :
        /\ req[r].refreshBody = "R0" /\ req[q].refreshBody = "R0"
        /\ req[q].refreshData = TokenData(1) /\ req[r].refreshData = TokenData(2)
        /\ req[q].Authorization = "Bearer T1"
        /\ session.accessToken = "T2" /\ session.refreshToken = "R2"

\* The steps of one request in the order the handlers take them.
StepOrder ==
    { <<"idle", "sent">>, <<"sent", "done">>, <<"sent", "refreshing">>,
      <<"refreshing", "retried">>, <<"refreshing", "done">>, <<"retried", "done">> }

\* C19: a request moves only along: sent (token attached), first response, then,
\* only on a first 401 with a refresh token, refresh call, session updated with the
\* new tokens, retry sent, retry's response, delivery.  The retry is sent with the
\* session already updated, and nothing is delivered while a call is in flight.
C19_StepsInOrder ==
    [][\A r \in Requests :
          /\ req'[r].pc # req[r].pc => <<req[r].pc, req'[r].pc>> \in StepOrder
          /\ req'[r].attempt # req[r].attempt =>
                 /\ req'[r].attempt = req[r].attempt + 1
                 /\ <<req[r].pc, req'[r].pc>> \in
                        {<<"idle", "sent">>, <<"refreshing", "retried">>}
          /\ req'[r].refreshCalls # req[r].refreshCalls =>
                 /\ Moves(r, "sent", "refreshing")
                 /\ Is401(req'[r].error)
                 /\ session.refreshToken # Null
          /\ Moves(r, "refreshing", "retried") =>
                 /\ req'[r].refreshData # None
                 /\ session'.accessToken = req'[r].refreshData.access_token
                 /\ session'.refreshToken = req'[r].refreshData.refresh_token
                 /\ req'[r].Authorization = "Bearer " \o session'.accessToken
          /\ req'[r].result # None <=> req'[r].pc = "done"
          /\ (req[r].pc # "done" /\ req'[r].pc = "done" /\ req'[r].attempt = 2) =>
                 (req[r].pc = "retried" /\ req'[r].result.value.call = 2)
      ]_vars

\* A request went through every step: 401, refresh with R0, pair 1, retry, 200.
C19_Witness ==
    \E r \in Requests :
        /\ Settled(r)
        /\ req[r].error = Reply(1, Unauthorized)
        /\ req[r].refreshBody = "R0"
        /\ req[r].refreshData = TokenData(1)
        /\ req[r].attempt = 2
        /\ req[r].result = Resolved(Reply(2, OkResponse))

-----------------------------------------------------------------------------
(* LoginPage.onSubmit: authAPI.login, authAPI.getMe, then login(...) *)

\* The profiles GET /auth/me may return (full_name is optional).
MeProfiles ==
    { [id |-> "u1", email |-> "e1", username |-> "n1", full_name |-> "F1", role |-> "viewer"],
      [id |-> "u1", email |-> "e1", username |-> "n1", full_name |-> Null, role |-> "viewer"] }

\* The user onSubmit builds: fullName is userInfo.full_name || userInfo.username.
UserFromMe(userInfo) ==
    [id       |-> userInfo.id,
     email    |-> userInfo.email,
     username |-> userInfo.username,
     fullName |-> IF userInfo.full_name # Null THEN userInfo.full_name
                                               ELSE userInfo.username,
     role     |-> userInfo.role]

\* onSubmit up to its first await: authAPI.login sends POST /auth/login through api.
Submit ==
    /\ form.pc = "idle"
    /\ \E r \in Requests :
          /\ Issue(r)
          /\ form' = [form EXCEPT !.pc = "login", !.loginReq = r]
    /\ UNCHANGED <<store, nextGen, forcedOut, lastCall, location>>

\* authAPI.login settled.  Resolved: `response` is the pair the server issued, and
\* authAPI.getMe sends GET /auth/me through api.  Rejected: the catch block.
LoginReturned ==
    /\ form.pc = "login"
    /\ req[form.loginReq].pc = "done"
    /\ IF req[form.loginReq].result.kind = "resolved"
       THEN /\ nextGen <= MaxGen
            /\ \E r \in Requests :
                  /\ Issue(r)
                  /\ form' = [form EXCEPT !.pc = "me", !.meReq = r,
                                          !.response = TokenData(nextGen)]
            /\ nextGen' = nextGen + 1
       ELSE /\ form' = [form EXCEPT !.pc = "failed"]
            /\ UNCHANGED <<req, nextGen>>
    /\ UNCHANGED <<store, forcedOut, lastCall, location>>

\* onSubmit without its try/catch around the awaits: login(...) and navigate run
\* whether authAPI.getMe resolved or not.
MeReturned_NoCatch ==
    /\ form.pc = "me"
    /\ req[form.meReq].pc = "done"
    /\ \E userInfo \in MeProfiles :
          Set(login(session, UserFromMe(userInfo),
                    form.response.access_token,
                    form.response.refresh_token))
    /\ form' = [form EXCEPT !.pc = IF req[form.meReq].result.kind = "resolved"
                                   THEN "done" ELSE "failed",
                            !.navigated = TRUE]
    /\ location' = Enter("/dashboard")
    /\ forcedOut' = FALSE
    /\ UNCHANGED <<req, nextGen, lastCall>>

\* authAPI.getMe settled.  Resolved: login(user, access_token, refresh_token) and
\* navigate('/dashboard').  Rejected: the catch block.
MeReturned ==
    /\ form.pc = "me"
    /\ req[form.meReq].pc = "done"
    /\ IF req[form.meReq].result.kind = "resolved"
       THEN /\ \E userInfo \in MeProfiles :
                  Set(login(session, UserFromMe(userInfo),
                            form.response.access_token,
                            form.response.refresh_token))
            /\ form' = [form EXCEPT !.pc = "done", !.navigated = TRUE]
            /\ location' = Enter("/dashboard")
            /\ forcedOut' = FALSE
       ELSE /\ form' = [form EXCEPT !.pc = "failed"]
            /\ UNCHANGED <<store, forcedOut, location>>
    /\ UNCHANGED <<req, nextGen, lastCall>>

\* handleDemoLogin: login(demo user, 'demo-access-token', 'demo-refresh-token').
DemoLogin ==
    /\ Set(login(session, DemoUser, "demo-access-token", "demo-refresh-token"))
    /\ location' = Enter("/dashboard")
    /\ forcedOut' = FALSE
    /\ UNCHANGED <<req, nextGen, lastCall, form>>

\* The request onSubmit awaits has settled and onSubmit has not gone on yet.  It goes
\* on in the same turn, so nothing else runs in between.
FormPending ==
    \/ form.pc = "login" /\ req[form.loginReq].pc = "done"
    \/ form.pc = "me" /\ req[form.meReq].pc = "done"

FormNext ==
    \/ Submit
    \/ LoginReturned
    \/ MeReturned
    \/ ~FormPending /\ DemoLogin
    \/ ~FormPending /\ Logout
    \/ ~FormPending /\ \E r \in Requests : OnFulfilled(r)
    \/ ~FormPending /\ \E r \in Requests, response \in ErrorResponses : OnRejected(r, response)
    \/ ~FormPending /\ \E r \in Requests : RefreshFulfilled(r)
    \/ ~FormPending /\ \E r \in Requests, response \in ErrorResponses : RefreshRejected(r, response)

FormSpec == Init /\ [][FormNext]_vars

\* C20: while the GET /auth/me of the form flow is on the wire, it carries as bearer
\* credential the access token that the POST /auth/login of this flow returned.
C20_MeCarriesNewToken ==
    (form.pc = "me" /\ req[form.meReq].pc = "sent") =>
        req[form.meReq].Authorization = "Bearer " \o form.response.access_token

-----------------------------------------------------------------------------
(* The router over the session: entering a path, following <Navigate> *)

\* Redirects the router follows from one entered path before it gives up.
MaxHops == 3

\* What the route table renders at the current path with the current session.
Shown == Element(location.path, session.isAuthenticated)

\* The browser enters a path.
Navigate(path) ==
    /\ location' = Enter(path)
    /\ UNCHANGED <<store, req, nextGen, forcedOut, lastCall, form>>

\* <Navigate to=... replace /> was rendered: the router goes to its target.
Redirect ==
    /\ Shown.kind = "navigate"
    /\ location.hops < MaxHops
    /\ location' = [location EXCEPT !.path = Shown.to, !.hops = @ + 1]
    /\ UNCHANGED <<store, req, nextGen, forcedOut, lastCall, form>>

RouteInit ==
    /\ session \in {EmptySession, RestoredSession}
    /\ req = [r \in Requests |-> NewRequest]
    /\ nextGen = 1
    /\ forcedOut = FALSE
    /\ lastCall = NoCall
    /\ form = IdleForm
    /\ storage = Partialize(GetState(session))
    /\ location \in {Enter(path) : path \in Paths}

\* A <Navigate> is rendered and not followed yet.  It is followed in the effects of
\* the commit that rendered it, so nothing else runs in between.
RoutePending == Shown.kind = "navigate" /\ location.hops < MaxHops

RouteNext ==
    \/ Redirect
    \/ ~RoutePending /\ \E path \in Paths : Navigate(path)
    \/ ~RoutePending /\ DemoLogin
    \/ ~RoutePending /\ Logout
    \/ ~RoutePending /\ \E r \in Requests : Send(r)
    \/ ~RoutePending /\ \E r \in Requests : OnRejected(r, Unauthorized)
    \/ ~RoutePending /\ \E r \in Requests, response \in ErrorResponses :
                            RefreshRejected(r, response)

RouteSpec == RouteInit /\ [][RouteNext]_vars

\* The router does follow a <Navigate> it has rendered.
RouteLive == RouteSpec /\ WF_vars(Redirect)

\* C21: at every path other than /login the route table renders a page only while
\* isAuthenticated is true; while it is false, forced logout included, every such
\* path renders a redirect, and following the redirects ends at /login.
C21_ProtectedRoutesNeedSession ==
    /\ [](\A path \in Paths \ {"/login"} :
             /\ Element(path, session.isAuthenticated).kind = "page"
                    => session.isAuthenticated
             /\ ~session.isAuthenticated
                    => Element(path, session.isAuthenticated).kind = "navigate")
    /\ [](~session.isAuthenticated /\ Shown.kind = "page" => location.path = "/login")
    /\ ~session.isAuthenticated ~> (session.isAuthenticated \/ location.path = "/login")

\* A forced logout happened while a protected page was shown, and the router went
\* from that page to /login.
C21_Witness ==
    /\ forcedOut
    /\ ~session.isAuthenticated
    /\ location.from \in ChildPaths
    /\ location.path = "/login"
    /\ location.hops = 1
    /\ \E r \in Requests : req[r].loggedOut

\* C29: from every entered path and with the session authenticated or not, the
\* router follows at most two redirects and then shows a page: there is no redirect
\* loop.  The page is /login when the session is unauthenticated, and /dashboard
\* when it is authenticated and the path entered was "/" or one the table does not
\* list.
C29_RedirectsTerminate ==
    /\ [](location.hops <= 2)
    /\ \A path \in Paths :
           (location.from = path /\ RoutePending)
               ~> (location.from = path /\ Shown.kind = "page")
    /\ [](Shown.kind = "page" =>
             /\ ~session.isAuthenticated => location.path = "/login"
             /\ (session.isAuthenticated /\ location.from \in {"/", "/nowhere"})
                    => location.path = "/dashboard")

\* An unlisted path was entered without a session: two redirects, then /login.
C29_Witness ==
    /\ location = [path |-> "/login", from |-> "/nowhere", hops |-> 2]
    /\ ~session.isAuthenticated
    /\ Shown = Page("/login")

-----------------------------------------------------------------------------
(* The persisted copy of the session *)

\* C22: whatever login, logout, updateUser and the api client's own login and
\* logout calls have done to the session, the record under 'chainsense-auth' has
\* exactly the fields user, accessToken, refreshToken and isAuthenticated, each
\* with the value the store holds in memory.
C22_PersistedMirrorsSession ==
    /\ DOMAIN storage = {"user", "accessToken", "refreshToken", "isAuthenticated"}
    /\ storage.user = session.user
    /\ storage.accessToken = session.accessToken
    /\ storage.refreshToken = session.refreshToken
    /\ storage.isAuthenticated = session.isAuthenticated

\* The api client's login after a refresh was persisted, with a user an updateUser
\* had changed, while another request's handler had called logout before.
C22_Witness ==
    \E r, q \in Requests :
        /\ req[r].pc = "retried"
        /\ req[q].loggedOut
        /\ storage.accessToken = req[r].refreshData.access_token
        /\ storage.refreshToken = req[r].refreshData.refresh_token
        /\ storage.user = [LoginUser EXCEPT !.role = "admin"]
        /\ storage.isAuthenticated

-----------------------------------------------------------------------------
(* Every call on the wire is answered or fails *)

\* The transport settles the call request r has on the wire: the promise of the
\* original send, of the refresh call or of the retry is fulfilled or rejected.
Respond(r) ==
    \/ OnFulfilled(r)
    \/ \E response \in ErrorResponses : OnRejected(r, response)
    \/ RefreshFulfilled(r)
    \/ \E response \in ErrorResponses : RefreshRejected(r, response)

LiveNext ==
    \/ Logout
    \/ \E r \in Requests : Send(r)
    \/ \E r \in Requests : Respond(r)

LiveSpec == Init /\ [][LiveNext]_vars /\ \A r \in Requests : WF_vars(Respond(r))

\* Calls put on the wire for request r: its sends and its refresh calls.
Exchanges(r) == req[r].attempt + req[r].refreshCalls

\* C23: when every call on the wire is eventually answered or fails, every request
\* issued through api eventually settles, resolved or rejected, to its caller, and
\* by then it has made at most three calls: the send, the refresh call, the retry.
C23_EveryRequestSettles ==
    /\ [](\A r \in Requests : Exchanges(r) <= 3)
    /\ \A r \in Requests :
           req[r].pc # "idle" ~>
               (req[r].pc = "done" /\ req[r].result.kind \in {"resolved", "rejected"})

\* All requests have settled, one of them after three calls and with a rejection,
\* another after a single call.
C23_Witness ==
    /\ \A r \in Requests : Settled(r)
    /\ \E r, q \in Requests :
          /\ Exchanges(r) = 3 /\ req[r].result.kind = "rejected"
          /\ Exchanges(q) = 1

-----------------------------------------------------------------------------
(* The session while a refresh call is in flight *)

\* C24: whenever a refresh call comes back fulfilled, the user the handler then
\* passes to login, the session's user at that moment, is not null, whatever logouts,
\* logins and other refreshes happened while the call was in flight.
C24_RefreshLoginUserNotNull ==
    [][\A r \in Requests :
          Moves(r, "refreshing", "retried") =>
              /\ session.user # None
              /\ session'.user # None
      ]_vars

\* C25: when a refresh call fails, the handler's logout empties the session only if
\* the session still holds the refresh token that call submitted; a pair installed
\* in the meantime by a login or by another request's refresh stays.
C25_StaleFailureKeepsNewPair ==
    [][\A r \in Requests :
          (Moves(r, "refreshing", "done") /\ session.refreshToken # req[r].refreshBody)
              => session' = session
      ]_vars

\* C26: when the retry of a request is answered 401, the handling step settles the
\* request with that error, calls no logout, makes no refresh call and leaves the
\* session as it was: a session holding the pair the refresh returned still holds
\* it and is still authenticated.
C26_Retry401KeepsSession ==
    [][\A r \in Requests :
          (/\ req[r].pc = "retried"
           /\ req'[r].pc # "retried"
           /\ req'[r].received = Reply(2, Unauthorized)) =>
              /\ req'[r].pc = "done"
              /\ ~req'[r].loggedOut
              /\ req'[r].refreshCalls = 1
              /\ session' = session
              /\ storage' = storage
              /\ session.accessToken = req[r].refreshData.access_token =>
                     /\ session'.refreshToken = req[r].refreshData.refresh_token
                     /\ session'.isAuthenticated
      ]_vars

\* A retry was answered 401 and the session is authenticated with the pair of the
\* refresh that preceded it.
C26_Witness ==
    \E r \in Requests :
        /\ Settled(r)
        /\ req[r].received = Reply(2, Unauthorized)
        /\ ~req[r].loggedOut
        /\ session.isAuthenticated
        /\ session.user # None
        /\ session.accessToken = req[r].refreshData.access_token
        /\ session.refreshToken = req[r].refreshData.refresh_token

-----------------------------------------------------------------------------
(* updateUser while a refresh call is in flight *)

\* A page calls updateUser(userData) while some request's refresh call is in flight.
UpdateDuringRefresh(userData) ==
    /\ \E r \in Requests : req[r].pc = "refreshing"
    /\ UpdateUser(userData)

UpdateNext ==
    \/ \E userData \in Partials : UpdateDuringRefresh(userData)
    \/ \E r \in Requests : Send(r)
    \/ \E r \in Requests : OnFulfilled(r)
    \/ \E r \in Requests, response \in ErrorResponses : OnRejected(r, response)
    \/ \E r \in Requests : RefreshFulfilled(r)
    \/ \E r \in Requests, response \in ErrorResponses : RefreshRejected(r, response)

UpdateSpec == Init /\ [][UpdateNext]_vars

\* C27: the step that completes a successful refresh leaves the session with the
\* user it held immediately before that step, field by field, so an updateUser made
\* while the refresh call was in flight is kept, with the new token pair.
C27_UpdateDuringRefreshKept ==
    [][\A r \in Requests :
          Moves(r, "refreshing", "retried") =>
              /\ session'.user = session.user
              /\ session.user # None =>
                     \A k \in UserKeys : session'.user[k] = session.user[k]
              /\ session'.accessToken = req'[r].refreshData.access_token
      ]_vars

\* The only refresh made so far has succeeded, and the session holds the user as
\* updateUser left it during that refresh, not the user it held at the 401.
C27_Witness ==
    \E r \in Requests :
        /\ req[r].pc = "retried"
        /\ \A q \in Requests \ {r} : req[q].refreshCalls = 0
        /\ session.user = [LoginUser EXCEPT !.fullName = "F2", !.role = "admin"]
        /\ session.accessToken = req[r].refreshData.access_token
        /\ session.isAuthenticated

-----------------------------------------------------------------------------
(* LoginPage.onSubmit: when it calls login, and when it does not *)

\* C28: onSubmit sends GET /auth/me only after POST /auth/login resolved, and calls
\* login and navigate('/dashboard') only in the step after GET /auth/me resolved.
\* The step in which it learns that either call failed changes neither the session
\* nor the location.  From an empty session, a failed flow has written nothing:
\* the session is empty, or what the demo login and the api client made of it.
C28_FormLoginOnlyAfterBoth ==
    /\ [](form.pc \in {"me", "done"} =>
             /\ req[form.loginReq].result.kind = "resolved"
             /\ req[form.loginReq].attempt >= 1)
    /\ [](form.pc = "done" <=> form.navigated)
    /\ [][form'.pc = "done" /\ form.pc # "done" =>
             /\ form.pc = "me"
             /\ req[form.meReq].result.kind = "resolved"
             /\ req[form.loginReq].result.kind = "resolved"
             /\ session'.accessToken = form.response.access_token
             /\ session'.refreshToken = form.response.refresh_token
             /\ location' = Enter("/dashboard")]_vars
    /\ [][form'.pc = "failed" /\ form.pc # "failed" =>
             /\ \/ form.pc = "login" /\ req[form.loginReq].result.kind = "rejected"
                \/ form.pc = "me" /\ req[form.meReq].result.kind = "rejected"
             /\ session' = session
             /\ location' = location
             /\ ~form'.navigated]_vars
    /\ session = EmptySession =>
           [](form.pc = "failed" =>
                 \/ session = EmptySession
                 \/ session.user = DemoUser
                 \/ session.user = None /\ session.isAuthenticated)

\* From the empty session: POST /auth/login resolved, GET /auth/me was rejected, the
\* flow ended without login or navigation, and the session is empty.
C28_Witness ==
    /\ form.pc = "failed"
    /\ req[form.loginReq].result.kind = "resolved"
    /\ form.meReq # 0
    /\ req[form.meReq].result.kind = "rejected"
    /\ req[form.meReq].Authorization = Null
    /\ ~form.navigated
    /\ location = Enter("/login")
    /\ session = EmptySession

====
